---------------------------- MODULE Spec2Model ----------------------------
(***************************************************************************)
(* Model of the ClusteredHeatmap component of prungta/geneheatmap: the     *)
(* upload handler, the asynchronous processExcelFile pipeline (schema      *)
(* detection, row validation, grouping, sorting, category segments), the   *)
(* React state it writes, the color scale, the significance marker of a    *)
(* cell, the export of the processed data, the column widths and their     *)
(* resizing, the selection of cells and the export of the selection.       *)
(*                                                                         *)
(* The repository holds three revisions of the component.  The model       *)
(* follows the most complete one (src/unnamed/part_001), the only one that *)
(* has every operation the specification describes; the grouping, sorting  *)
(* and segment code is identical in src/src/ClusteredHeatmap.js.           *)
(*                                                                         *)
(* Representation.                                                         *)
(*  - A JavaScript string is a sequence of one-character strings, so that  *)
(*    the regular expressions, trim() and parseFloat() are computed on the *)
(*    characters.                                                          *)
(*  - A number is an integer count of thousandths (1.2 is 1200, 0.049 is   *)
(*    49).                                                                 *)
(*  - A cell or JavaScript value is a record [t, n, s]: t is "undef",      *)
(*    "null", "nan", "num" (n is the number) or "str" (s is the text).     *)
(*  - An optional value (null or an object) is a sequence of length 0 or 1.*)
(***************************************************************************)
EXTENDS Integers, Sequences, FiniteSets, TLC

(***************************************************************************)
(* Bounds of the model.                                                    *)
(***************************************************************************)
MaxRows == 3
MaxSchemaCols == 3
MaxUploads == 2
MaxColorRows == 2
MaxExportRows == 2

(***************************************************************************)
(* JavaScript values.                                                      *)
(***************************************************************************)
Undef == [t |-> "undef", n |-> 0, s |-> <<>>]
JsNull == [t |-> "null", n |-> 0, s |-> <<>>]
JsNaN == [t |-> "nan", n |-> 0, s |-> <<>>]
Num(k) == [t |-> "num", n |-> k, s |-> <<>>]
Str(chars) == [t |-> "str", n |-> 0, s |-> chars]

None == <<>>
Some(x) == <<x>>

\* JavaScript truthiness of a value (used by || and by !geneId)
Truthy(v) ==
  CASE v.t = "undef" -> FALSE
    [] v.t = "null" -> FALSE
    [] v.t = "nan" -> FALSE
    [] v.t = "num" -> v.n # 0
    [] v.t = "str" -> Len(v.s) > 0

(***************************************************************************)
(* Characters and strings.                                                 *)
(***************************************************************************)
UpperAZ == <<"A","B","C","D","E","F","G","H","I","J","K","L","M",
             "N","O","P","Q","R","S","T","U","V","W","X","Y","Z">>
LowerAZ == <<"a","b","c","d","e","f","g","h","i","j","k","l","m",
             "n","o","p","q","r","s","t","u","v","w","x","y","z">>
DigitChars == <<"0","1","2","3","4","5","6","7","8","9">>
WhiteSpace == {" ", "\t", "\n", "\r"}
LineTerminators == {"\n", "\r"}

ToLowerChar(c) ==
  IF \E i \in 1..26 : UpperAZ[i] = c
    THEN LowerAZ[CHOOSE i \in 1..26 : UpperAZ[i] = c]
    ELSE c

\* String.prototype.toLowerCase
ToLowerCase(str) == [i \in 1..Len(str) |-> ToLowerChar(str[i])]

\* String.prototype.trim
Trim(str) ==
  LET keep == {i \in 1..Len(str) : str[i] \notin WhiteSpace}
  IN IF keep = {} THEN <<>>
     ELSE LET lo == CHOOSE i \in keep : \A j \in keep : i <= j
              hi == CHOOSE i \in keep : \A j \in keep : j <= i
          IN SubSeq(str, lo, hi)

\* String.prototype.includes
Includes(str, sub) ==
  \E i \in 1..(Len(str) - Len(sub) + 1) : SubSeq(str, i, i + Len(sub) - 1) = sub

DigitVal(c) == (CHOOSE i \in 1..10 : DigitChars[i] = c) - 1

\* length of the longest prefix of str, from position i on, made of characters of set
RECURSIVE RunLen(_, _, _)
RunLen(str, i, set) ==
  IF i <= Len(str) /\ str[i] \in set THEN 1 + RunLen(str, i + 1, set) ELSE 0

DigitSet == {DigitChars[i] : i \in 1..10}

\* value of a run of decimal digits
RECURSIVE DigitsValue(_)
DigitsValue(ds) ==
  IF Len(ds) = 0 THEN 0
  ELSE 10 * DigitsValue(SubSeq(ds, 1, Len(ds) - 1)) + DigitVal(ds[Len(ds)])

\* the fraction digits fs as a count of thousandths (digits after the third are below the resolution)
FractionValue(fs) ==
  LET d(i) == IF i <= Len(fs) THEN DigitVal(fs[i]) ELSE 0
  IN 100 * d(1) + 10 * d(2) + d(3)

(***************************************************************************)
(* parseFloat: the argument is converted to a string; leading white space  *)
(* is skipped; the longest prefix that is a decimal literal (sign, digits, *)
(* fraction) is converted; without such a prefix the result is NaN.        *)
(* A number converts to itself.  Exponents and Infinity are not in the     *)
(* cell pools.                                                             *)
(***************************************************************************)
ParseFloatStr(str) ==
  LET p0 == 1 + RunLen(str, 1, WhiteSpace)
      neg == p0 <= Len(str) /\ str[p0] = "-"
      p1 == IF p0 <= Len(str) /\ str[p0] \in {"-", "+"} THEN p0 + 1 ELSE p0
      ni == RunLen(str, p1, DigitSet)
      p2 == p1 + ni
      hasDot == p2 <= Len(str) /\ str[p2] = "."
      nf == IF hasDot THEN RunLen(str, p2 + 1, DigitSet) ELSE 0
      mag == 1000 * DigitsValue(SubSeq(str, p1, p2 - 1))
             + FractionValue(SubSeq(str, p2 + 1, p2 + nf))
  IN IF ni + nf = 0 THEN JsNaN
     ELSE Num(IF neg THEN 0 - mag ELSE mag)

ParseFloat(v) ==
  CASE v.t = "num" -> v
    [] v.t = "str" -> ParseFloatStr(v.s)
    [] OTHER -> JsNaN

(***************************************************************************)
(* The decoded sheet (rawData of XLSX.utils.sheet_to_json): cols is the    *)
(* header row of the sheet, rows the data rows, each aligned to cols.  A   *)
(* blank cell (Undef) is a key that the row object does not have.          *)
(***************************************************************************)
\* gene[h]: the property h of a row object
Get(cols, row, h) ==
  IF \E i \in 1..Len(cols) : cols[i] = h
    THEN row[CHOOSE i \in 1..Len(cols) : cols[i] = h]
    ELSE Undef

\* Object.keys(row): the headers whose cell is present, in column order
RECURSIVE ObjectKeys(_, _, _)
ObjectKeys(cols, row, i) ==
  IF i > Len(cols) THEN <<>>
  ELSE (IF row[i].t # "undef" THEN <<cols[i]>> ELSE <<>>) \o ObjectKeys(cols, row, i + 1)

\* a || b
JsOr(a, b) == IF Truthy(a) THEN a ELSE b

(***************************************************************************)
(* Schema detection.                                                       *)
(***************************************************************************)
Log2FCMarker == <<"l","o","g","2","f","c">>
PValueMarker == <<"p"," ","v","a","l","u","e">>

\* the pattern without the i flag: the marker is matched as written in lower case
ExecPatternCaseSensitive(marker, h) ==
  LET m == Len(marker)
      k == RunLen(h, m + 1, WhiteSpace)
      open == m + k + 1
      cap == SubSeq(h, open + 1, Len(h) - 1)
  IN IF /\ Len(h) >= m
        /\ SubSeq(h, 1, m) = marker
        /\ open <= Len(h)
        /\ h[open] = "("
        /\ h[Len(h)] = ")"
        /\ Len(cap) >= 1
        /\ \A i \in 1..Len(cap) : cap[i] \notin LineTerminators
     THEN Some(cap)
     ELSE None

\* exec of /^<marker>\s*\((.+)\)$/i on header h: None, or Some(capture group 1)
ExecPattern(marker, h) ==
  LET m == Len(marker)
      k == RunLen(h, m + 1, WhiteSpace)
      open == m + k + 1
      cap == SubSeq(h, open + 1, Len(h) - 1)
  IN IF /\ Len(h) >= m
        /\ ToLowerCase(SubSeq(h, 1, m)) = marker
        /\ open <= Len(h)
        /\ h[open] = "("
        /\ h[Len(h)] = ")"
        /\ Len(cap) >= 1
        /\ \A i \in 1..Len(cap) : cap[i] \notin LineTerminators
     THEN Some(cap)
     ELSE None

comparisonPattern(h) == ExecPattern(Log2FCMarker, h)
pValuePattern(h) == ExecPattern(PValueMarker, h)

\* headers.filter(h => comparisonPattern.test(h))
RECURSIVE FilterComparisons(_)
FilterComparisons(headers) ==
  IF Len(headers) = 0 THEN <<>>
  ELSE (IF comparisonPattern(Head(headers)) # None THEN <<Head(headers)>> ELSE <<>>)
       \o FilterComparisons(Tail(headers))

\* comparisons.map(h => { const match = h.match(comparisonPattern); return match ? match[1].trim() : h; })
ShortName(h) ==
  LET match == comparisonPattern(h)
  IN IF match # None THEN Trim(match[1]) ELSE h

ShortNames(comparisons) == [i \in 1..Len(comparisons) |-> ShortName(comparisons[i])]

\* headers.filter(h => pValuePattern.test(h))
RECURSIVE FilterPValues(_)
FilterPValues(headers) ==
  IF Len(headers) = 0 THEN <<>>
  ELSE (IF pValuePattern(Head(headers)) # None THEN <<Head(headers)>> ELSE <<>>)
       \o FilterPValues(Tail(headers))

CategoryWord == <<"c","a","t","e","g","o","r","y">>

\* headers.find(h => h.toLowerCase().includes('category')): None when there is none
CategoryCol(headers) ==
  LET hits == {i \in 1..Len(headers) : Includes(ToLowerCase(headers[i]), CategoryWord)}
  IN IF hits = {} THEN None
     ELSE Some(headers[CHOOSE i \in hits : \A j \in hits : i <= j])

(***************************************************************************)
(* Row validation.                                                         *)
(***************************************************************************)
GeneIdKey == <<"G","e","n","e"," ","I","D">>
GeneIDKey == <<"G","e","n","e","I","D">>
Gene_idKey == <<"g","e","n","e","_","i","d">>
Uncategorized == Str(<<"U","n","c","a","t","e","g","o","r","i","z","e","d">>)

\* the identifier taken without trim()
GeneIdOfNoTrim(cols, row) ==
  JsOr(JsOr(Get(cols, row, GeneIdKey), Get(cols, row, GeneIDKey)), Get(cols, row, Gene_idKey))

\* let geneId = gene['Gene ID'] || gene['GeneID'] || gene['gene_id'];
\* if (typeof geneId === 'string') geneId = geneId.trim();
GeneIdOf(cols, row) ==
  LET geneId == JsOr(JsOr(Get(cols, row, GeneIdKey), Get(cols, row, GeneIDKey)),
                     Get(cols, row, Gene_idKey))
  IN IF geneId.t = "str" THEN Str(Trim(geneId.s)) ELSE geneId

\* val !== undefined && val !== null && val !== '' ? parseFloat(val) : null
ParseCell(val) ==
  IF val.t # "undef" /\ val.t # "null" /\ val # Str(<<>>) THEN ParseFloat(val) ELSE JsNull

\* the object pushed to geneData for a row with a valid gene ID
GeneRecord(cols, row, comparisons, pValueColumns, categoryCol) ==
  [id |-> GeneIdOf(cols, row),
   category |-> JsOr(IF categoryCol = None THEN Undef ELSE Get(cols, row, categoryCol[1]),
                     Uncategorized),
   values |-> [j \in 1..Len(comparisons) |-> ParseCell(Get(cols, row, comparisons[j]))],
   pValues |-> [j \in 1..Len(pValueColumns) |-> ParseCell(Get(cols, row, pValueColumns[j]))]]

\* rawData.forEach(...): rows without a valid gene ID are skipped
RECURSIVE GeneData(_, _, _, _, _)
GeneData(cols, rows, comparisons, pValueColumns, categoryCol) ==
  IF Len(rows) = 0 THEN <<>>
  ELSE (IF ~Truthy(GeneIdOf(cols, Head(rows))) THEN <<>>
        ELSE <<GeneRecord(cols, Head(rows), comparisons, pValueColumns, categoryCol)>>)
       \o GeneData(cols, Tail(rows), comparisons, pValueColumns, categoryCol)

(***************************************************************************)
(* Grouping and sorting.                                                   *)
(***************************************************************************)
\* the distinct categories with each new one put in front
RECURSIVE CategoriesLastFirst(_, _)
CategoriesLastFirst(geneData, seen) ==
  IF Len(geneData) = 0 THEN <<>>
  ELSE LET c == Head(geneData).category
       IN IF c \in seen THEN CategoriesLastFirst(Tail(geneData), seen)
          ELSE CategoriesLastFirst(Tail(geneData), seen \cup {c}) \o <<c>>

\* [...new Set(geneData.map(gene => gene.category))]: distinct categories in order of first appearance
RECURSIVE Categories(_, _)
Categories(geneData, seen) ==
  IF Len(geneData) = 0 THEN <<>>
  ELSE LET c == Head(geneData).category
       IN IF c \in seen THEN Categories(Tail(geneData), seen)
          ELSE <<c>> \o Categories(Tail(geneData), seen \cup {c})

\* geneData.filter(gene => gene.category === category)
RECURSIVE GenesInCategory(_, _)
GenesInCategory(geneData, category) ==
  IF Len(geneData) = 0 THEN <<>>
  ELSE (IF Head(geneData).category = category THEN <<Head(geneData)>> ELSE <<>>)
       \o GenesInCategory(Tail(geneData), category)

\* ToNumber of an operand of the subtraction: null is 0, NaN and undefined are NaN
ToNumber(v) ==
  CASE v.t = "num" -> v
    [] v.t = "null" -> Num(0)
    [] OTHER -> JsNaN

\* the comparator (a, b) => a.values[0] - b.values[0] as Array.prototype.sort uses it:
\* a NaN result counts as +0
Compare(a, b) ==
  LET x == ToNumber(IF Len(a.values) >= 1 THEN a.values[1] ELSE Undef)
      y == ToNumber(IF Len(b.values) >= 1 THEN b.values[1] ELSE Undef)
  IN IF x.t = "nan" \/ y.t = "nan" THEN 0 ELSE x.n - y.n

Reverse(arr) == [i \in 1..Len(arr) |-> arr[Len(arr) + 1 - i]]

(***************************************************************************)
(* Array.prototype.sort.  With a comparator that is not a consistent       *)
(* ordering the result is implementation-defined, so the sort is modelled  *)
(* by the algorithms of two engines; which one runs is fixed per           *)
(* behaviour (variable engine).                                            *)
(*   "timsort": V8's TimSort; below 64 elements it is one natural run      *)
(*              (reversed if strictly descending) extended by binary       *)
(*              insertion.                                                 *)
(*   "insertion": a straight (linear, stable) insertion sort.              *)
(***************************************************************************)
Engines == {"timsort", "insertion"}

\* last index (1-based) of the run that starts at 1, scanning from idx
RECURSIVE RunEnd(_, _, _)
RunEnd(arr, idx, isDescending) ==
  IF idx > Len(arr) THEN idx - 1
  ELSE LET order == Compare(arr[idx], arr[idx - 1])
       IN IF (isDescending /\ order >= 0) \/ (~isDescending /\ order < 0)
            THEN idx - 1
            ELSE RunEnd(arr, idx + 1, isDescending)

\* binary search of the insertion point of pivot in arr[left+1 .. right] (0-based bounds)
RECURSIVE BinarySearch(_, _, _, _)
BinarySearch(arr, pivot, left, right) ==
  IF left < right
    THEN LET mid == left + ((right - left) \div 2)
         IN IF Compare(pivot, arr[mid + 1]) < 0
              THEN BinarySearch(arr, pivot, left, mid)
              ELSE BinarySearch(arr, pivot, mid + 1, right)
    ELSE left

\* binary insertion of arr[start+1 ..] into the sorted prefix arr[1 .. start] (start 0-based)
RECURSIVE BinaryInsertionSort(_, _)
BinaryInsertionSort(arr, start) ==
  IF start >= Len(arr) THEN arr
  ELSE LET pivot == arr[start + 1]
           left == BinarySearch(arr, pivot, 0, start)
           moved == SubSeq(arr, 1, left) \o <<pivot>> \o SubSeq(arr, left + 1, start)
                    \o SubSeq(arr, start + 2, Len(arr))
       IN BinaryInsertionSort(moved, start + 1)

TimSort(arr) ==
  IF Len(arr) < 2 THEN arr
  ELSE LET isDescending == Compare(arr[2], arr[1]) < 0
           runLength == RunEnd(arr, 3, isDescending)
           run == IF isDescending
                    THEN Reverse(SubSeq(arr, 1, runLength)) \o SubSeq(arr, runLength + 1, Len(arr))
                    ELSE arr
       IN BinaryInsertionSort(run, runLength)

\* position (0-based) at which x goes when it is moved left over every larger element of arr[1 .. j]
RECURSIVE SlideLeft(_, _, _)
SlideLeft(arr, x, j) ==
  IF j >= 1 /\ Compare(arr[j], x) > 0 THEN SlideLeft(arr, x, j - 1) ELSE j

RECURSIVE InsertionSort(_, _)
InsertionSort(arr, start) ==
  IF start >= Len(arr) THEN arr
  ELSE LET x == arr[start + 1]
           left == SlideLeft(arr, x, start)
           moved == SubSeq(arr, 1, left) \o <<x>> \o SubSeq(arr, left + 1, start)
                    \o SubSeq(arr, start + 2, Len(arr))
       IN InsertionSort(moved, start + 1)

\* the sort followed by a reversal of the group
SortGenesReversed(arr, eng) ==
  Reverse(IF eng = "timsort" THEN TimSort(arr) ELSE InsertionSort(arr, 1))

\* categoryGenes.sort((a, b) => a.values[0] - b.values[0])
SortGenes(arr, eng) ==
  IF eng = "timsort" THEN TimSort(arr) ELSE InsertionSort(arr, 1)

\* categories.forEach(category => { ...sort...; sortedGeneData.push(...categoryGenes) })
RECURSIVE ConcatSorted(_, _, _)
ConcatSorted(geneData, categories, eng) ==
  IF Len(categories) = 0 THEN <<>>
  ELSE SortGenes(GenesInCategory(geneData, Head(categories)), eng)
       \o ConcatSorted(geneData, Tail(categories), eng)

\* the grouping and sorting step: geneData -> sortedGeneData
SortedGeneData(geneData, eng) ==
  ConcatSorted(geneData, Categories(geneData, {}), eng)

(***************************************************************************)
(* Category segments: one scan of the sorted genes.  index is 0-based as   *)
(* in the code; currentCategory is None for null.                          *)
(***************************************************************************)
Segment(category, startIndex, endIndex, count) ==
  [category |-> category, startIndex |-> startIndex, endIndex |-> endIndex, count |-> count]

RECURSIVE ScanGroups(_, _, _, _)
ScanGroups(sorted, index, currentCategory, startIndex) ==
  IF index >= Len(sorted)
    THEN \* Add the last group
         IF currentCategory # None
           THEN <<Segment(currentCategory[1], startIndex, Len(sorted) - 1, Len(sorted) - startIndex)>>
           ELSE <<>>
    ELSE LET gene == sorted[index + 1]
         IN IF Some(gene.category) # currentCategory
              THEN (IF currentCategory # None
                      THEN <<Segment(currentCategory[1], startIndex, index - 1, index - startIndex)>>
                      ELSE <<>>)
                   \o ScanGroups(sorted, index + 1, Some(gene.category), index)
              ELSE ScanGroups(sorted, index + 1, currentCategory, startIndex)

\* the scan without the push of the last group
CategoryGroupsNoLast(sorted) ==
  LET groups == ScanGroups(sorted, 0, None, 0)
  IN SubSeq(groups, 1, Len(groups) - 1)

CategoryGroups(sorted) == ScanGroups(sorted, 0, None, 0)

(***************************************************************************)
(* processExcelFile after the sheet has been decoded: the Dataset handed   *)
(* to setData, or the message handed to setError by the catch block.       *)
(***************************************************************************)
MsgNoData == "Failed to process gene expression data: Failed to read Excel file: No data found in the sheet"
MsgNoHeaders == "Failed to process gene expression data: No headers found in the Excel file"
MsgNoComparisons == "Failed to process gene expression data: No comparison columns found. Expected columns with pattern: \"Log2FC (ComparisonName)\""
MsgNoGenes == "Failed to process gene expression data: No valid gene data found in the file"
MsgNoSheets == "Failed to process gene expression data: Failed to read Excel file: No sheets found in the Excel file"
MsgCorrupt == "Failed to process gene expression data: Failed to read Excel file: (XLSX.read error)"
MsgUnreadable == "Failed to process gene expression data: (arrayBuffer error)"

Failure(msg) == [err |-> Some(msg), data |-> None]
Success(dataset) == [err |-> None, data |-> Some(dataset)]

\* the headers the schema detection sees: Object.keys(rawData[0] || {})
Headers(table) ==
  IF Len(table.rows) = 0 THEN <<>> ELSE ObjectKeys(table.cols, table.rows[1], 1)

\* the pipeline without the check of comparisons.length
ProcessRawDataNoSchemaCheck(table, eng) ==
  LET headers == Headers(table)
      comparisons == FilterComparisons(headers)
      shortNames == ShortNames(comparisons)
      pValueColumns == FilterPValues(headers)
      categoryCol == CategoryCol(headers)
      geneData == GeneData(table.cols, table.rows, comparisons, pValueColumns, categoryCol)
      sortedGeneData == SortedGeneData(geneData, eng)
  IN IF Len(table.rows) = 0 THEN Failure(MsgNoData)
     ELSE IF Len(headers) = 0 THEN Failure(MsgNoHeaders)
     ELSE IF Len(geneData) = 0 THEN Failure(MsgNoGenes)
     ELSE Success([genes |-> sortedGeneData,
                   comparisons |-> shortNames,
                   comparisonColumns |-> comparisons,
                   pValueColumns |-> pValueColumns,
                   categoryGroups |-> CategoryGroups(sortedGeneData),
                   categories |-> Categories(sortedGeneData, {})])

\* the pipeline without the check of geneData.length
ProcessRawDataNoGeneCheck(table, eng) ==
  LET headers == Headers(table)
      comparisons == FilterComparisons(headers)
      shortNames == ShortNames(comparisons)
      pValueColumns == FilterPValues(headers)
      categoryCol == CategoryCol(headers)
      geneData == GeneData(table.cols, table.rows, comparisons, pValueColumns, categoryCol)
      sortedGeneData == SortedGeneData(geneData, eng)
  IN IF Len(table.rows) = 0 THEN Failure(MsgNoData)
     ELSE IF Len(headers) = 0 THEN Failure(MsgNoHeaders)
     ELSE IF Len(comparisons) = 0 THEN Failure(MsgNoComparisons)
     ELSE Success([genes |-> sortedGeneData,
                   comparisons |-> shortNames,
                   comparisonColumns |-> comparisons,
                   pValueColumns |-> pValueColumns,
                   categoryGroups |-> CategoryGroups(sortedGeneData),
                   categories |-> Categories(sortedGeneData, {})])

ProcessRawData(table, eng) ==
  LET headers == Headers(table)
      comparisons == FilterComparisons(headers)
      shortNames == ShortNames(comparisons)
      pValueColumns == FilterPValues(headers)
      categoryCol == CategoryCol(headers)
      geneData == GeneData(table.cols, table.rows, comparisons, pValueColumns, categoryCol)
      sortedGeneData == SortedGeneData(geneData, eng)
  IN IF Len(table.rows) = 0 THEN Failure(MsgNoData)
     ELSE IF Len(headers) = 0 THEN Failure(MsgNoHeaders)
     ELSE IF Len(comparisons) = 0 THEN Failure(MsgNoComparisons)
     ELSE IF Len(geneData) = 0 THEN Failure(MsgNoGenes)
     ELSE Success([genes |-> sortedGeneData,
                   comparisons |-> shortNames,
                   comparisonColumns |-> comparisons,
                   pValueColumns |-> pValueColumns,
                   categoryGroups |-> CategoryGroups(sortedGeneData),
                   categories |-> Categories(sortedGeneData, {})])

\* the whole of processExcelFile after await selectedFile.arrayBuffer(), for a file f
ProcessOutcome(f, eng) ==
  CASE f.content = "unreadable" -> Failure(MsgUnreadable)
    [] f.content = "corrupt" -> Failure(MsgCorrupt)
    [] f.content = "nosheets" -> Failure(MsgNoSheets)
    [] OTHER -> ProcessRawData(f.table, eng)

(***************************************************************************)
(* colorScale.  A color is the record of the d3 function that made it:     *)
(* scheme "hex" is a literal color string, "Reds" and "Blues" are          *)
(* d3.interpolateReds and d3.interpolateBlues at an intensity, "undefined" *)
(* is the undefined a quantile scale returns for NaN.  An intensity of     *)
(* kind "lin" is n / 3000, of kind "log" is log2(n / 1000) / 3, of kind    *)
(* "nan" is NaN.                                                           *)
(***************************************************************************)
Hex(h) == [scheme |-> "hex", kind |-> "hex", n |-> 0, hex |-> h]
Interpolate(scheme, intensity) ==
  [scheme |-> scheme, kind |-> intensity.kind, n |-> intensity.n, hex |-> ""]
UndefinedColor == [scheme |-> "undefined", kind |-> "none", n |-> 0, hex |-> ""]

NeutralColor == Hex("#f9f9f9")

\* d3.schemeRdBu[7] as the d3 module exports it
SchemeRdBu7 ==
  <<Hex("#b2182b"), Hex("#ef8a62"), Hex("#fddbc7"), Hex("#f7f7f7"),
    Hex("#d1e5f0"), Hex("#67a9cf"), Hex("#2166ac")>>

ColorScaleTypes == {"linear", "log", "quantile"}

Abs(k) == IF k < 0 THEN 0 - k ELSE k
Sign(k) == IF k > 0 THEN 1 ELSE IF k < 0 THEN 0 - 1 ELSE 0
Min(a, b) == IF a <= b THEN a ELSE b
Max(a, b) == IF a >= b THEN a ELSE b

\* let v = value: the number as it is
LinearValue(value) ==
  IF value.t = "num" THEN [kind |-> "lin", sgn |-> Sign(value.n), n |-> Abs(value.n)]
  ELSE [kind |-> "nan", sgn |-> 0, n |-> 0]

\* value === 0 ? 0 : (value > 0 ? Math.log2(Math.abs(value) + 1) : -Math.log2(Math.abs(value) + 1))
\* kept as the term sgn * log2(n / 1000)
LogValue(value) ==
  IF value.t # "num" THEN [kind |-> "nan", sgn |-> 0, n |-> 0]
  ELSE IF value.n = 0 THEN [kind |-> "lin", sgn |-> 0, n |-> 0]
  ELSE [kind |-> "log", sgn |-> Sign(value.n), n |-> Abs(value.n) + 1000]

\* Math.abs(v) / 3 without the cap at 1
IntensityUncapped(v) ==
  CASE v.kind = "lin" -> [kind |-> "lin", n |-> v.n]
    [] v.kind = "log" -> [kind |-> "log", n |-> v.n]
    [] OTHER -> [kind |-> "nan", n |-> 0]

\* Math.min(Math.abs(v) / 3, 1); log2(n / 1000) / 3 >= 1 exactly when n >= 8000
Intensity(v) ==
  CASE v.kind = "lin" -> [kind |-> "lin", n |-> Min(v.n, 3000)]
    [] v.kind = "log" -> IF v.n >= 8000 THEN [kind |-> "lin", n |-> 3000]
                         ELSE [kind |-> "log", n |-> v.n]
    [] OTHER -> [kind |-> "nan", n |-> 0]

\* if (v > 0) interpolateReds(intensity) else interpolateBlues(intensity)
RampColor(v) ==
  IF v.sgn > 0 THEN Interpolate("Reds", Intensity(v)) ELSE Interpolate("Blues", Intensity(v))

\* data.genes.flatMap(g => g.values)
RECURSIVE AllVals(_)
AllVals(genes) ==
  IF Len(genes) = 0 THEN <<>> ELSE Head(genes).values \o AllVals(Tail(genes))

\* insertion of a number into an ascending sequence
RECURSIVE InsertAscending(_, _)
InsertAscending(sorted, k) ==
  IF Len(sorted) = 0 THEN <<k>>
  ELSE IF k < Head(sorted) THEN <<k>> \o sorted
  ELSE <<Head(sorted)>> \o InsertAscending(Tail(sorted), k)

\* quantile.domain(allVals): the values that are not null and not NaN, ascending
RECURSIVE QuantileDomain(_)
QuantileDomain(vals) ==
  IF Len(vals) = 0 THEN <<>>
  ELSE IF Head(vals).t = "num" THEN InsertAscending(QuantileDomain(Tail(vals)), Head(vals).n)
  ELSE QuantileDomain(Tail(vals))

\* 7 times the threshold i of 7 bins over a sorted non-empty domain: d3.quantile with
\* p = i / 7, h = (n - 1) * p, value0 + (value1 - value0) * (h - floor(h))
Threshold7(domain, i) ==
  LET n == Len(domain)
      h7 == (n - 1) * i
      i0 == h7 \div 7
  IN IF n < 2 THEN 7 * domain[1]
     ELSE 7 * domain[i0 + 1] + (domain[i0 + 2] - domain[i0 + 1]) * (h7 - 7 * i0)

\* scale(value) of d3.scaleQuantile().domain(allVals).range(range): the colors the call
\* can return.  With an empty domain every threshold is undefined and the bisection
\* ends at the first or at the last color, by the version of d3-array.
ScaleQuantile(allVals, range, value) ==
  LET domain == QuantileDomain(allVals)
  IN IF value.t # "num" THEN {UndefinedColor}
     ELSE IF Len(domain) = 0 THEN {range[1], range[7]}
     ELSE {range[Cardinality({i \in 1..6 : Threshold7(domain, i) <= 7 * value.n}) + 1]}

\* the quantile branch is taken: colorScaleType === 'quantile' && data, for a value
\* that passed the null check
QuantileBranch(value, type, dataset) ==
  value.t \notin {"undef", "null"} /\ type = "quantile" /\ dataset # None

\* colorScale with the null check on a falsy value
colorScaleFalsyNeutral(value, type, dataset, scheme) ==
  IF ~Truthy(value) THEN {NeutralColor}
  ELSE IF QuantileBranch(value, type, dataset)
    THEN ScaleQuantile(AllVals(dataset[1].genes), Reverse(scheme), value)
  ELSE IF type = "log" THEN {RampColor(LogValue(value))}
  ELSE {RampColor(LinearValue(value))}

\* colorScale(value): the colors the call can return, for the colorScaleType, the data
\* and the d3.schemeRdBu[7] array of the moment of the call
colorScale(value, type, dataset, scheme) ==
  IF value.t \in {"undef", "null"} THEN {NeutralColor}
  ELSE IF QuantileBranch(value, type, dataset)
    THEN ScaleQuantile(AllVals(dataset[1].genes), Reverse(scheme), value)
  ELSE IF type = "log" THEN {RampColor(LogValue(value))}
  ELSE {RampColor(LinearValue(value))}

\* d3.schemeRdBu[7] after the call: reverse() reverses the array of the module in place
SchemeAfterColorScale(value, type, dataset, scheme) ==
  IF QuantileBranch(value, type, dataset) THEN Reverse(scheme) ELSE scheme

(***************************************************************************)
(* The significance marker of a cell (renderHeatmap, gene.values.map).     *)
(* A p-value is in thousandths, so 0.01, 0.05 and 0.1 are 10, 50 and 100.  *)
(***************************************************************************)
\* x < k for a JavaScript value x and a number k: null compares as 0, undefined and NaN
\* compare false
LessThan(x, k) == ToNumber(x).t = "num" /\ ToNumber(x).n < k

\* x >= k
AtLeast(x, k) == ToNumber(x).t = "num" /\ ToNumber(x).n >= k

\* getSizeForPValue with the first threshold at 0.1
getSizeForPValueWide(pValue) ==
  IF AtLeast(pValue, 50) THEN 0
  ELSE IF LessThan(pValue, 100) THEN 5
  ELSE 3

getSizeForPValue(pValue) ==
  IF AtLeast(pValue, 50) THEN 0
  ELSE IF LessThan(pValue, 10) THEN 5
  ELSE 3

\* const isSignificant = pValue < 0.05
IsSignificant(pValue) == LessThan(pValue, 50)

\* isMarginal with the lower bound exclusive: pValue > 0.05 && pValue < 0.1
IsMarginalExclusive(pValue) == ToNumber(pValue).t = "num" /\ ToNumber(pValue).n > 50 /\ LessThan(pValue, 100)

\* const isMarginal = pValue >= 0.05 && pValue < 0.1
IsMarginal(pValue) == AtLeast(pValue, 50) /\ LessThan(pValue, 100)

\* const circleRadius = isSignificant ? getSizeForPValue(pValue) : (isMarginal ? 2 : 0)
CircleRadius(pValue) ==
  IF IsSignificant(pValue) THEN getSizeForPValue(pValue)
  ELSE IF IsMarginal(pValue) THEN 2 ELSE 0

\* the decimal digits of a natural number
RECURSIVE NatChars(_)
NatChars(n) ==
  IF n < 10 THEN <<DigitChars[n + 1]>>
  ELSE NatChars(n \div 10) \o NatChars(n % 10)

\* value.toFixed(1) of a number in thousandths: the sign, then the nearest tenth of the
\* magnitude, the larger one at a tie
ToFixed1(value) ==
  IF value.t # "num" THEN <<"N","a","N">>
  ELSE LET tenths == (Abs(value.n) + 50) \div 100
       IN (IF value.n < 0 THEN <<"-">> ELSE <<>>)
          \o NatChars(tenths \div 10) \o <<".">> \o NatChars(tenths % 10)

TextNotAvailable == <<"N","/","A">>

\* value !== undefined && value !== null ? value.toFixed(1) : "N/A"
CellText(value) == IF value.t \notin {"undef", "null"} THEN ToFixed1(value) ELSE TextNotAvailable

\* gene.pValues[j]: undefined beyond the end of the array
At(arr, j) == IF j \in 1..Len(arr) THEN arr[j] ELSE Undef

\* what the cell (gene, j) shows, for the fill that colorScale(value) returned
CellView(gene, j, fill) ==
  LET value == gene.values[j]
      pValue == At(gene.pValues, j)
  IN [value |-> value,
      pValue |-> pValue,
      fill |-> fill,
      text |-> CellText(value),
      fontWeight |-> IF IsSignificant(pValue) THEN "bold" ELSE "normal",
      circle |-> IsSignificant(pValue) \/ IsMarginal(pValue),
      r |-> CircleRadius(pValue),
      circleFill |-> IF IsSignificant(pValue) THEN "black" ELSE "#888"]

(***************************************************************************)
(* Column widths.  Lengths are in tenths of a pixel until Math.ceil.       *)
(***************************************************************************)
\* useState({geneName: 12, header: 12, cellValue: 12, categoryName: 12}): the object has
\* no foldChange property until its slider is moved (None is undefined)
InitialFontSizes ==
  [geneName |-> 12, header |-> 12, cellValue |-> 12, categoryName |-> 12, foldChange |-> None]

FontFields == {"geneName", "foldChange", "header", "categoryName"}

\* setFontSizes(prev => ({ ...prev, [field]: value }))
WithFontSize(prev, field, value) ==
  CASE field = "geneName" -> [prev EXCEPT !.geneName = value]
    [] field = "header" -> [prev EXCEPT !.header = value]
    [] field = "categoryName" -> [prev EXCEPT !.categoryName = value]
    [] OTHER -> [prev EXCEPT !.foldChange = Some(value)]

\* `bold ${fontSizes.header}px Arial`
HeaderFont(fonts) == Some([bold |-> TRUE, size |-> fonts.header])

\* `${fontSizes.foldChange}px Arial`; "undefinedpx Arial" is no font (None)
CellFont(fonts) ==
  IF fonts.foldChange = None THEN None ELSE Some([bold |-> FALSE, size |-> fonts.foldChange[1]])

\* context.font = font: the canvas keeps its font when the string is not a font
CanvasFont(current, font) == IF font = None THEN current ELSE font[1]

\* context.measureText(text).width: half the font size per character, six tenths in bold
MeasureText(text, font) == Len(text) * font.size * (IF font.bold THEN 6 ELSE 5)

\* data.genes.forEach(...) of column j: maxWidth after the genes, canvas being the font
\* the shared canvas holds
RECURSIVE MaxCellWidth(_, _, _, _, _)
MaxCellWidth(genes, j, cellFont, maxWidth, canvas) ==
  IF Len(genes) = 0 THEN maxWidth
  ELSE LET used == CanvasFont(canvas, cellFont)
       IN MaxCellWidth(Tail(genes), j, cellFont,
                       Max(maxWidth, MeasureText(CellText(Head(genes).values[j]), used)), used)

MinColWidth == 50

\* Math.ceil(x) of a length in tenths, in pixels
CeilPx(tenths) == (tenths + 9) \div 10

\* Math.ceil(Math.max(maxWidth + 18, minColWidth)) for column j
ColWidthRaw(dataset, fonts, j) ==
  LET headerFont == HeaderFont(fonts)[1]
      maxWidth == MeasureText(dataset.comparisons[j], headerFont)
  IN CeilPx(Max(MaxCellWidth(dataset.genes, j, CellFont(fonts), maxWidth, headerFont) + 180,
                MinColWidth * 10))

\* data.comparisons.map((comparison, j) => ...)
ColWidthsRaw(dataset, fonts) ==
  [j \in 1..Len(dataset.comparisons) |-> ColWidthRaw(dataset, fonts, j)]

\* the dependencies of the effect: [data && data.comparisons?.length, fontSizes.header,
\* fontSizes.foldChange]
EffectDeps(dataset, fonts) ==
  <<IF dataset = None THEN None ELSE Some(Len(dataset[1].comparisons)),
    fonts.header, fonts.foldChange>>

\* colWidthsState after the effect of a render in which the dependencies changed from
\* deps: the widths are set when there are none or their number is not the number of
\* comparisons
UseEffectColWidths(deps, dataset, fonts, widths) ==
  IF /\ EffectDeps(dataset, fonts) # deps
     /\ dataset # None
     /\ (widths = None \/ Len(widths[1]) # Len(dataset[1].comparisons))
    THEN Some(ColWidthsRaw(dataset[1], fonts))
    ELSE widths

\* const colWidths = colWidthsState || colWidthsRaw
ColWidths(dataset, fonts, widths) ==
  IF widths # None THEN widths[1] ELSE ColWidthsRaw(dataset, fonts)

(***************************************************************************)
(* File validation of handleFileUpload.                                    *)
(***************************************************************************)
EndsWith(str, suffix) ==
  Len(str) >= Len(suffix) /\ SubSeq(str, Len(str) - Len(suffix) + 1, Len(str)) = suffix

\* selectedFile.name.match(/\.(xlsx|xls)$/i)
ValidFileName(name) ==
  \/ EndsWith(ToLowerCase(name), <<".","x","l","s","x">>)
  \/ EndsWith(ToLowerCase(name), <<".","x","l","s">>)

MaxFileSize == 10 * 1024 * 1024
MsgNoFile == "No file selected"
MsgFileType == "Invalid file type. Please upload an Excel file (.xlsx or .xls)"
MsgFileSize == "File is too large. Maximum size is 10MB"

(***************************************************************************)
(* Inputs: the sheets and files the behaviours draw from.                  *)
(***************************************************************************)
HCategory == <<"C","a","t","e","g","o","r","y">>
HGoCategory == <<"G","O"," ","C","A","T","E","G","O","R","Y">>
HFcA == <<"L","o","g","2","F","C"," ","(","A",")">>
HFcB == <<"l","o","g","2","f","c","("," ","B"," ",")">>
HFcC == <<"L","O","G","2","F","C"," ","\t","(","C"," ","(","x",")",")">>
HFcNoParen == <<"L","o","g","2","F","C"," ","A">>
HFcEmpty == <<"L","o","g","2","F","C"," ","(",")">>
HFcPrefixed == <<"x","L","o","g","2","F","C"," ","(","A",")">>
HFcTrailing == <<"L","o","g","2","F","C"," ","(","A",")"," ">>
HPA == <<"P"," ","v","a","l","u","e"," ","(","A",")">>

CatL == Str(<<"L","i","p","i","d">>)
CatI == Str(<<"I","m","m","u","n","e">>)
TextNA == Str(<<"N","A">>)

\* the identifier of the gene in row i of a sheet whose rows are told apart by position
IdOfRow(i) == Str(<<"g", DigitChars[i + 1]>>)

\* all sequences without repetition of at most n elements of set
RECURSIVE InjectiveSeqs(_, _)
InjectiveSeqs(set, n) ==
  IF n = 0 THEN {<<>>}
  ELSE LET shorter == InjectiveSeqs(set, n - 1)
       IN shorter \cup
          UNION {{Append(q, x) : x \in set \ {q[i] : i \in 1..Len(q)}}
                   : q \in {r \in shorter : Len(r) = n - 1}}

Table(cols, rows) == [cols |-> cols, rows |-> rows]
NoTable == Table(<<>>, <<>>)

FileXlsx == <<"a",".","x","l","s","x">>
FileXLS == <<"b",".","X","L","S">>
FileCsv == <<"c",".","c","s","v">>
SmallSize == 2048

SheetFile(name, size, table) == [name |-> name, size |-> size, content |-> "sheet", table |-> table]
BrokenFile(name, content) == [name |-> name, size |-> SmallSize, content |-> content, table |-> NoTable]

(***************************************************************************)
(* downloadProcessedData: the sheet XLSX.utils.json_to_sheet writes from   *)
(* outRows and headers, as sheet_to_json reads it back.                    *)
(***************************************************************************)
\* `Log2FC (${name})`
Log2FCHeader(name) == <<"L","o","g","2","F","C"," ","(">> \o name \o <<")">>

\* `P-value (${name})`
PValueHeader(name) == <<"P","-","v","a","l","u","e"," ","(">> \o name \o <<")">>

HCategoryExport == <<"C","a","t","e","g","o","r","y">>

\* const headers = ["Gene ID", "Category", ...Log2FC headers, ...P-value headers]
ExportHeaders(comparisons) ==
  <<GeneIdKey, HCategoryExport>>
    \o [i \in 1..Len(comparisons) |-> Log2FCHeader(comparisons[i])]
    \o [i \in 1..Len(comparisons) |-> PValueHeader(comparisons[i])]

\* v !== undefined && v !== null ? v : "N/A"
OrNotAvailable(v) == IF v.t \notin {"undef", "null"} THEN v ELSE Str(TextNotAvailable)

\* the last i with comparisons[i] = name: the assignment to obj[key] that stays
LastIndexOf(comparisons, name) ==
  CHOOSE i \in 1..Len(comparisons) :
    /\ comparisons[i] = name
    /\ \A k \in (i + 1)..Len(comparisons) : comparisons[k] # name

\* the row of the sheet for a gene, aligned to the headers: a key written twice keeps
\* its last value in the first column of that header, an undefined property is a blank cell
ExportRow(gene, comparisons) ==
  LET m == Len(comparisons)
      log2fc == [i \in 1..Len(gene.values) |-> OrNotAvailable(gene.values[i])]
      pvals == [i \in 1..Len(gene.pValues) |-> OrNotAvailable(gene.pValues[i])]
      first(i) == \A k \in 1..(i - 1) : comparisons[k] # comparisons[i]
  IN <<gene.id, gene.category>>
       \o [i \in 1..m |-> IF first(i) THEN At(log2fc, LastIndexOf(comparisons, comparisons[i]))
                          ELSE Undef]
       \o [i \in 1..m |-> IF first(i) THEN At(pvals, LastIndexOf(comparisons, comparisons[i]))
                          ELSE Undef]

\* the "Processed Data" sheet of processed_gene_data.xlsx
ExportTable(dataset) ==
  Table(ExportHeaders(dataset.comparisons),
        [r \in 1..Len(dataset.genes) |-> ExportRow(dataset.genes[r], dataset.comparisons)])

ExportFileName ==
  <<"p","r","o","c","e","s","s","e","d","_","g","e","n","e","_","d","a","t","a",".","x","l","s","x">>

\* the file writeFile hands to the browser
ExportFile(dataset) == SheetFile(ExportFileName, SmallSize, ExportTable(dataset))

\* sheets that vary the header row: one gene, the columns of a sequence of headers
SchemaPool == {HFcA, HFcB, HFcC, HFcNoParen, HFcEmpty, HFcPrefixed, HFcTrailing, HPA, HGoCategory}
SchemaSeqs == InjectiveSeqs(SchemaPool, MaxSchemaCols)
SchemaCell(h) == IF h = HGoCategory THEN CatL ELSE Num(1000)
SchemaTable(hs) ==
  Table(<<GeneIdKey>> \o hs, << <<IdOfRow(1)>> \o [i \in 1..Len(hs) |-> SchemaCell(hs[i])] >>)

\* sheets that vary category and first value of up to MaxRows genes; cells[i] is the
\* pair of the category cell and the value cell of row i
SortCats == {Undef, CatL, CatI}
SortVals == {Undef, Num(0 - 500), Num(1200), Num(2000), TextNA}
SortTable(cells) ==
  Table(<<GeneIdKey, HCategory, HFcA>>,
        [i \in 1..Len(cells) |-> <<IdOfRow(i), cells[i][1], cells[i][2]>>])

\* sheets that vary the identifier column and the identifier cells of up to MaxRows rows
HGeneLower == <<"g","e","n","e"," ","i","d">>
IdHeaders == {GeneIdKey, GeneIDKey, Gene_idKey, HGeneLower}
IdCells == {Undef, Str(<<>>), Str(<<" ", "\t">>), Str(<<" ", "a", " ">>), Str(<<"b">>), Num(7000)}
IdTable(h, ids) == Table(<<h, HFcA>>, [i \in 1..Len(ids) |-> <<ids[i], Num(1000)>>])

\* sheets that vary the text of a comparison cell and of a p-value cell of up to
\* MaxParseRows genes
MaxParseRows == 2
ParseVals == {Undef, Str(<<>>), Num(1200), Str(<<"-","0",".","5">>),
              Str(<<" ","1",".","2","5","x">>), TextNA}
ParsePVals == {Undef, Num(30), Str(<<"0",".","0","4","9">>), Str(<<"n","/","a">>)}
ParseTable(cells) ==
  Table(<<GeneIdKey, HFcA, HPA>>,
        [i \in 1..Len(cells) |-> <<IdOfRow(i), cells[i][1], cells[i][2]>>])

\* sheets that vary the fold changes of up to MaxColorRows genes of one comparison
ColorVals == {Undef, Num(0 - 4500), Num(0 - 1500), Num(0), Num(1200), TextNA}
ColorTable(vals) ==
  Table(<<GeneIdKey, HFcA>>, [i \in 1..Len(vals) |-> <<IdOfRow(i), vals[i]>>])

\* sheets that vary the p-value of one gene; a sheet whose second gene has a blank
\* p-value cell; a sheet with two comparisons and the p-values of the first only
MarkerPVals == {Undef, Num(9), Num(10), Num(49), Num(50), Num(99), Num(100), Num(200),
                Str(<<"n","/","a">>)}
MarkerTable(p) == Table(<<GeneIdKey, HFcA, HPA>>, << <<IdOfRow(1), Num(1200), p>> >>)
TableBlankPValue ==
  Table(<<GeneIdKey, HFcA, HPA>>,
        << <<IdOfRow(1), Num(1200), Num(30)>>, <<IdOfRow(2), Num(2000), Undef>> >>)
HFcD == <<"L","o","g","2","F","C"," ","(","D",")">>
TableFewerPValues ==
  Table(<<GeneIdKey, HFcA, HFcD, HPA>>, << <<IdOfRow(1), Num(1200), Num(0 - 500), Num(30)>> >>)

\* the values colorScale is called with
ColorArgs == {Undef, JsNull, JsNaN, Num(0 - 7000), Num(0 - 4500), Num(0 - 1500), Num(0),
              Num(1), Num(1200), Num(3000), Num(4500)}

\* sheets that are exported: up to MaxExportRows genes of one comparison with p-values,
\* cells[i] the pair of the value cell and the p-value cell of row i; a sheet with a
\* category column; a sheet whose comparison name is blank
ExportVals == {Undef, Num(0 - 500), Num(1200)}
ExportPVals == {Undef, Num(30)}
ExportSourceTable(cells) ==
  Table(<<GeneIdKey, HFcA, HPA>>,
        [i \in 1..Len(cells) |-> <<IdOfRow(i), cells[i][1], cells[i][2]>>])
HFcBlankName == <<"L","o","g","2","F","C"," ","("," ",")">>
TableBlankName == Table(<<GeneIdKey, HFcBlankName>>, << <<IdOfRow(1), Num(1200)>> >>)
TableCategories ==
  Table(<<GeneIdKey, HGoCategory, HFcB, HPA>>,
        << <<IdOfRow(1), CatI, Num(2000), Num(200)>>,
           <<IdOfRow(2), CatL, Num(1200), Num(30)>>,
           <<IdOfRow(3), CatI, Num(0 - 500), Num(9)>> >>)
ExportFixedTables == {TableFewerPValues, TableBlankName, TableCategories}

\* sheets that differ in the width of their texts and in the number of comparisons
HFcLong ==
  <<"L","o","g","2","F","C"," ","(","C","t","r","l"," ","v","s"," ","K","D"," ","d","a","y"," ","7",")">>
TableShort == Table(<<GeneIdKey, HFcA>>, << <<IdOfRow(1), Num(1200)>> >>)
TableWideCell == Table(<<GeneIdKey, HFcA>>, << <<IdOfRow(1), Num(0 - 12500000)>> >>)
TableWideHeader == Table(<<GeneIdKey, HFcLong>>, << <<IdOfRow(1), Undef>> >>)
LayoutTables == {TableShort, TableWideCell, TableWideHeader, TableFewerPValues}

\* sheets whose columns are resized, and the positions of the mouse
ResizeTables == {TableShort, TableFewerPValues}
MouseXs == {0, 40}
MaxDragWidth == 120

\* the values of the font size sliders the behaviours use (min 8, max 20, step 1)
FontSliderValues == {8, 12, 20}

\* the sheets of the component specification
TableExample ==
  Table(<<GeneIdKey, HFcA, HPA, HCategory>>,
        << <<Str(<<"A">>), Num(1200), Num(30), CatL>>,
           <<Str(<<"B">>), Num(0 - 500), Num(200), CatL>> >>)
TableOther == Table(<<GeneIdKey, HFcB>>, << <<IdOfRow(1), Num(2000)>> >>)
TableNoComparison == Table(<<GeneIdKey, HFcNoParen>>, << <<IdOfRow(1), Num(1000)>> >>)
TableNoIds == Table(<<GeneIdKey, HFcA>>, << <<Str(<<" ">>), Num(1000)>>, <<Undef, Num(1000)>> >>)

\* sheets whose cells are selected: two genes, one gene, two genes with one identifier,
\* one gene of two comparisons
TableDuplicateIds ==
  Table(<<GeneIdKey, HFcA, HPA>>,
        << <<IdOfRow(1), Num(1200), Num(30)>>, <<IdOfRow(1), Num(0 - 500), Num(200)>> >>)
SelectTables == {TableExample, TableOther, TableDuplicateIds, TableFewerPValues}

\* the files of the component specification
NarrowFiles ==
  {SheetFile(FileXlsx, SmallSize, t) : t \in {TableExample, TableOther, NoTable, TableNoComparison, TableNoIds}}
  \cup {SheetFile(FileXLS, MaxFileSize, TableExample),
        SheetFile(FileCsv, SmallSize, TableExample),
        SheetFile(FileXlsx, MaxFileSize + 1, TableOther),
        BrokenFile(FileXlsx, "unreadable"),
        BrokenFile(FileXlsx, "corrupt"),
        BrokenFile(FileXlsx, "nosheets")}

(***************************************************************************)
(* What the user can select.  The pipeline specification ("wide") draws    *)
(* one workbook from four families of sheets; the component specification  *)
(* ("narrow") draws from NarrowFiles or selects nothing.  A selection is   *)
(* named by its family, a size n and a choice c.  The other disks hold the *)
(* sheets of the color behaviours ("color"), of the marker behaviours      *)
(* ("marker"), of the export behaviours ("export"), of the column width    *)
(* behaviours ("layout"), of the cell selection ("select") and of the      *)
(* column resizing ("resize").                                             *)
(***************************************************************************)
Families(d) ==
  CASE d = "wide" -> {"schema", "sort", "id", "parse"}
    [] d = "color" -> {"color"}
    [] d = "marker" -> {"marker"}
    [] d = "export" -> {"source", "fixed"}
    [] d = "layout" -> {"layout"}
    [] d = "select" -> {"select"}
    [] d = "resize" -> {"resize"}
    [] OTHER -> {"narrow"}

Sizes(fam) ==
  CASE fam = "schema" -> 0..MaxSchemaCols
    [] fam = "sort" -> 0..MaxRows
    [] fam = "id" -> 1..MaxRows
    [] fam = "parse" -> 1..MaxParseRows
    [] fam = "color" -> 1..MaxColorRows
    [] fam = "source" -> 1..MaxExportRows
    [] OTHER -> {0}

Choices(fam, n) ==
  CASE fam = "schema" -> {hs \in SchemaSeqs : Len(hs) = n}
    [] fam = "sort" -> [1..n -> SortCats \X SortVals]
    [] fam = "id" -> IdHeaders \X [1..n -> IdCells]
    [] fam = "parse" -> [1..n -> ParseVals \X ParsePVals]
    [] fam = "color" -> [1..n -> ColorVals]
    [] fam = "marker" -> {MarkerTable(p) : p \in MarkerPVals} \cup {TableBlankPValue, TableFewerPValues}
    [] fam = "source" -> [1..n -> ExportVals \X ExportPVals]
    [] fam = "fixed" -> ExportFixedTables
    [] fam = "layout" -> LayoutTables
    [] fam = "select" -> SelectTables
    [] fam = "resize" -> ResizeTables
    [] OTHER -> {None} \cup {Some(f) : f \in NarrowFiles}

\* event.target.files[0] of the selection: None when undefined
Selected(fam, c) ==
  CASE fam = "schema" -> Some(SheetFile(FileXlsx, SmallSize, SchemaTable(c)))
    [] fam = "sort" -> Some(SheetFile(FileXlsx, SmallSize, SortTable(c)))
    [] fam = "id" -> Some(SheetFile(FileXlsx, SmallSize, IdTable(c[1], c[2])))
    [] fam = "parse" -> Some(SheetFile(FileXlsx, SmallSize, ParseTable(c)))
    [] fam = "color" -> Some(SheetFile(FileXlsx, SmallSize, ColorTable(c)))
    [] fam \in {"marker", "fixed", "layout", "select", "resize"} -> Some(SheetFile(FileXlsx, SmallSize, c))
    [] fam = "source" -> Some(SheetFile(FileXlsx, SmallSize, ExportSourceTable(c)))
    [] OTHER -> c

(***************************************************************************)
(* State of the component.                                                 *)
(*   data, loading, error, file, colorScaleType, fontSizes,                *)
(*   colWidthsState: the React state of the same names                     *)
(*   schemeRdBu7: the array d3.schemeRdBu[7] of the d3 module              *)
(*   pending: the processExcelFile calls suspended at                      *)
(*            await selectedFile.arrayBuffer(), each with its file         *)
(*   exported: the file downloadProcessedData wrote last                   *)
(*   colorCall: the argument, the colorScaleType and the return value of   *)
(*            the last call of colorScale                                  *)
(*   renderedCell: the cell renderHeatmap produced last                    *)
(*   selectedCells: the React state of the same name, cells counted from 0 *)
(*   exportedSelection: the file exportSelection wrote last                *)
(*   resizingCol, startX, startWidth: the refs of the same names           *)
(*   engine: the sort algorithm of the JavaScript engine                   *)
(*   disk: which set of files the user can select                          *)
(*   uploadsLeft: file selections the behaviour may still make             *)
(***************************************************************************)
VARIABLES data, loading, error, file, pending, engine, disk, uploadsLeft,
          colorScaleType, schemeRdBu7, fontSizes, colWidthsState, exported, colorCall, renderedCell,
          selectedCells, exportedSelection, resizingCol, startX, startWidth

vars == <<data, loading, error, file, pending, engine, disk, uploadsLeft,
          colorScaleType, schemeRdBu7, fontSizes, colWidthsState, exported, colorCall, renderedCell,
          selectedCells, exportedSelection, resizingCol, startX, startWidth>>

viewVars == <<colorScaleType, schemeRdBu7, colorCall, renderedCell>>

uiVars == <<selectedCells, exportedSelection, resizingCol, startX, startWidth>>

InitState(d, n) ==
  /\ data = None
  /\ loading = FALSE
  /\ error = None
  /\ file = None
  /\ pending = <<>>
  /\ engine \in Engines
  /\ disk = d
  /\ uploadsLeft = n
  /\ colorScaleType = "linear"
  /\ schemeRdBu7 = SchemeRdBu7
  /\ fontSizes = InitialFontSizes
  /\ colWidthsState = None
  /\ exported = None
  /\ colorCall = None
  /\ renderedCell = None
  /\ selectedCells = <<>>
  /\ exportedSelection = None
  /\ resizingCol = None
  /\ startX = None
  /\ startWidth = None

Init == InitState("narrow", MaxUploads)
InitPipe == InitState("wide", 1)
InitColor == InitState("color", 1)
InitMarker == InitState("marker", 1)
InitExport == InitState("export", 2)
InitLayout == InitState("layout", 2)
InitSelect == InitState("select", 2)
InitResize == InitState("resize", 2)

RemoveAt(q, i) == SubSeq(q, 1, i - 1) \o SubSeq(q, i + 1, Len(q))

\* the body of handleFileUpload without the check of selectedFile.size
SelectFileAnySize(selected) ==
  IF selected = None
    THEN /\ error' = Some(MsgNoFile)
         /\ UNCHANGED <<file, loading, pending>>
    ELSE LET selectedFile == selected[1]
         IN /\ file' = Some(selectedFile)
            /\ IF ~ValidFileName(selectedFile.name)
                 THEN /\ error' = Some(MsgFileType)
                      /\ loading' = FALSE
                      /\ UNCHANGED pending
                 ELSE /\ error' = None
                      /\ loading' = TRUE
                      /\ pending' = Append(pending, selectedFile)

\* the body of handleFileUpload for event.target.files[0] = selected
SelectFile(selected) ==
  IF selected = None
    THEN /\ error' = Some(MsgNoFile)
         /\ UNCHANGED <<file, loading, pending>>
    ELSE LET selectedFile == selected[1]
         IN /\ file' = Some(selectedFile)
            /\ IF ~ValidFileName(selectedFile.name)
                 THEN /\ error' = Some(MsgFileType)
                      /\ loading' = FALSE
                      /\ UNCHANGED pending
                 ELSE IF selectedFile.size > MaxFileSize
                 THEN /\ error' = Some(MsgFileSize)
                      /\ loading' = FALSE
                      /\ UNCHANGED pending
                 ELSE /\ error' = None
                      /\ loading' = TRUE
                      /\ pending' = Append(pending, selectedFile)

\* handleFileUpload(event) for the selection (fam, n, c) or for the exported file
handleFileUpload ==
  /\ uploadsLeft > 0
  /\ uploadsLeft' = uploadsLeft - 1
  /\ \/ \E fam \in Families(disk) : \E n \in Sizes(fam) : \E c \in Choices(fam, n) :
          SelectFile(Selected(fam, c))
     \/ exported # None /\ SelectFile(exported)
  /\ UNCHANGED <<data, engine, disk, fontSizes, colWidthsState, exported>>
  /\ UNCHANGED viewVars
  /\ UNCHANGED uiVars

\* processExcelFile with a catch block that also clears the displayed Dataset
processExcelFileClearing(i) ==
  /\ i \in 1..Len(pending)
  /\ LET outcome == ProcessOutcome(pending[i], engine)
     IN IF outcome.err = None
          THEN /\ data' = outcome.data
               /\ loading' = FALSE
               /\ UNCHANGED error
          ELSE /\ error' = outcome.err
               /\ loading' = FALSE
               /\ data' = None
  /\ colWidthsState' =
       UseEffectColWidths(EffectDeps(data, fontSizes), data', fontSizes, colWidthsState)
  /\ pending' = RemoveAt(pending, i)
  /\ UNCHANGED <<file, engine, disk, uploadsLeft, fontSizes, exported>>
  /\ UNCHANGED viewVars
  /\ UNCHANGED uiVars

\* processExcelFile with a catch block that leaves loading as it is
processExcelFileStillLoading(i) ==
  /\ i \in 1..Len(pending)
  /\ LET outcome == ProcessOutcome(pending[i], engine)
     IN IF outcome.err = None
          THEN /\ data' = outcome.data
               /\ loading' = FALSE
               /\ UNCHANGED error
          ELSE /\ error' = outcome.err
               /\ UNCHANGED <<loading, data>>
  /\ colWidthsState' =
       UseEffectColWidths(EffectDeps(data, fontSizes), data', fontSizes, colWidthsState)
  /\ pending' = RemoveAt(pending, i)
  /\ UNCHANGED <<file, engine, disk, uploadsLeft, fontSizes, exported>>
  /\ UNCHANGED viewVars
  /\ UNCHANGED uiVars

\* processExcelFile resumed after await selectedFile.arrayBuffer(), for the i-th suspended
\* call, with the effect of the render that follows setData
processExcelFile(i) ==
  /\ i \in 1..Len(pending)
  /\ LET outcome == ProcessOutcome(pending[i], engine)
     IN IF outcome.err = None
          THEN /\ data' = outcome.data
               /\ loading' = FALSE
               /\ UNCHANGED error
          ELSE /\ error' = outcome.err
               /\ loading' = FALSE
               /\ UNCHANGED data
  /\ colWidthsState' =
       UseEffectColWidths(EffectDeps(data, fontSizes), data', fontSizes, colWidthsState)
  /\ pending' = RemoveAt(pending, i)
  /\ UNCHANGED <<file, engine, disk, uploadsLeft, fontSizes, exported>>
  /\ UNCHANGED viewVars
  /\ UNCHANGED uiVars

\* onChange of the color scale select: setColorScaleType(e.target.value)
setColorScaleType(type) ==
  /\ type \in ColorScaleTypes
  /\ colorScaleType' = type
  /\ UNCHANGED <<data, loading, error, file, pending, engine, disk, uploadsLeft,
                 schemeRdBu7, fontSizes, colWidthsState, exported, colorCall, renderedCell>>
  /\ UNCHANGED uiVars

\* a call colorScale(value)
callColorScale(value) ==
  /\ \E color \in colorScale(value, colorScaleType, data, schemeRdBu7) :
       colorCall' = Some([value |-> value, type |-> colorScaleType, color |-> color])
  /\ schemeRdBu7' = SchemeAfterColorScale(value, colorScaleType, data, schemeRdBu7)
  /\ UNCHANGED <<data, loading, error, file, pending, engine, disk, uploadsLeft,
                 colorScaleType, fontSizes, colWidthsState, exported, renderedCell>>
  /\ UNCHANGED uiVars

\* renderHeatmap for the cell of gene i and comparison j (both counted from 1)
renderCell(i, j) ==
  /\ data # None
  /\ i \in 1..Len(data[1].genes)
  /\ j \in 1..Len(data[1].genes[i].values)
  /\ LET gene == data[1].genes[i]
         value == gene.values[j]
     IN /\ \E fill \in colorScale(value, colorScaleType, data, schemeRdBu7) :
             /\ renderedCell' = Some(CellView(gene, j, fill))
             /\ colorCall' = Some([value |-> value, type |-> colorScaleType, color |-> fill])
        /\ schemeRdBu7' = SchemeAfterColorScale(value, colorScaleType, data, schemeRdBu7)
  /\ UNCHANGED <<data, loading, error, file, pending, engine, disk, uploadsLeft,
                 colorScaleType, fontSizes, colWidthsState, exported>>
  /\ UNCHANGED uiVars

\* onChange of a font size slider: setFontSizes(prev => ({ ...prev, [field]: value })),
\* with the effect of the render that follows
setFontSizes(field, value) ==
  /\ field \in FontFields
  /\ value \in FontSliderValues
  /\ fontSizes' = WithFontSize(fontSizes, field, value)
  /\ colWidthsState' =
       UseEffectColWidths(EffectDeps(data, fontSizes), data, fontSizes', colWidthsState)
  /\ UNCHANGED <<data, loading, error, file, pending, engine, disk, uploadsLeft, exported>>
  /\ UNCHANGED viewVars
  /\ UNCHANGED uiVars

\* downloadProcessedData: if (!data) return
downloadProcessedData ==
  /\ IF data = None THEN UNCHANGED exported
     ELSE exported' = Some(ExportFile(data[1]))
  /\ UNCHANGED <<data, loading, error, file, pending, engine, disk, uploadsLeft,
                 fontSizes, colWidthsState>>
  /\ UNCHANGED viewVars
  /\ UNCHANGED uiVars

\* selectedCells.findIndex(c => c.row === i && c.col === j) >= 0
IsSelected(cells, i, j) == \E k \in 1..Len(cells) : cells[k].row = i /\ cells[k].col = j

\* handleCellClick that appends the cell whether or not it is selected
handleCellClickAppending(i, j) ==
  /\ data # None
  /\ i \in 0..(Len(data[1].genes) - 1)
  /\ j \in 0..(Len(data[1].genes[i + 1].values) - 1)
  /\ selectedCells' = Append(selectedCells, [row |-> i, col |-> j])
  /\ UNCHANGED <<data, loading, error, file, pending, engine, disk, uploadsLeft,
                 fontSizes, colWidthsState, exported>>
  /\ UNCHANGED viewVars
  /\ UNCHANGED <<exportedSelection, resizingCol, startX, startWidth>>

\* onClick of the cell of gene i and comparison j (both counted from 0): handleCellClick(i, j)
handleCellClick(i, j) ==
  /\ data # None
  /\ i \in 0..(Len(data[1].genes) - 1)
  /\ j \in 0..(Len(data[1].genes[i + 1].values) - 1)
  /\ selectedCells' =
       IF IsSelected(selectedCells, i, j)
         THEN LET idx == CHOOSE k \in 1..Len(selectedCells) :
                           /\ selectedCells[k].row = i /\ selectedCells[k].col = j
                           /\ \A m \in 1..(k - 1) :
                                ~(selectedCells[m].row = i /\ selectedCells[m].col = j)
              IN RemoveAt(selectedCells, idx)
         ELSE Append(selectedCells, [row |-> i, col |-> j])
  /\ UNCHANGED <<data, loading, error, file, pending, engine, disk, uploadsLeft,
                 fontSizes, colWidthsState, exported>>
  /\ UNCHANGED viewVars
  /\ UNCHANGED <<exportedSelection, resizingCol, startX, startWidth>>

\* Array.from(new Set(selectedCells.map(c => data.genes[c.row].id))), as includes reads it
SelectedGenes(cells, dataset) == {dataset.genes[cells[k].row + 1].id : k \in 1..Len(cells)}

\* data.genes.filter((g, i) => selectedGenes.includes(g.id))
SelectionRows(cells, dataset) ==
  LET included(g) == g.id \in SelectedGenes(cells, dataset)
  IN SelectSeq(dataset.genes, included)

\* the "Selection" sheet of selected_cluster.xlsx
SelectionTable(cells, dataset) ==
  LET rows == SelectionRows(cells, dataset)
  IN Table(ExportHeaders(dataset.comparisons),
           [r \in 1..Len(rows) |-> ExportRow(rows[r], dataset.comparisons)])

SelectionFileName ==
  <<"s","e","l","e","c","t","e","d","_","c","l","u","s","t","e","r",".","x","l","s","x">>

\* data.genes[c.row] is undefined for a cell of selectedCells: reading its id throws
SelectionThrows(cells, dataset) == \E k \in 1..Len(cells) : cells[k].row >= Len(dataset.genes)

\* onClick of Export Selection: exportSelection(); nothing is written when the selection
\* is empty or when the TypeError of a cell without a gene leaves the handler
exportSelection ==
  /\ IF selectedCells = <<>> \/ data = None THEN UNCHANGED exportedSelection
     ELSE IF SelectionThrows(selectedCells, data[1]) THEN UNCHANGED exportedSelection
     ELSE exportedSelection' =
            Some(SheetFile(SelectionFileName, SmallSize, SelectionTable(selectedCells, data[1])))
  /\ UNCHANGED <<data, loading, error, file, pending, engine, disk, uploadsLeft,
                 fontSizes, colWidthsState, exported>>
  /\ UNCHANGED viewVars
  /\ UNCHANGED <<selectedCells, resizingCol, startX, startWidth>>

\* newWidths[k] = w for k counted from 0; an index past the end lengthens the array, the
\* slots in between stay empty (written 0)
SetAt(arr, k, w) ==
  [m \in 1..Max(Len(arr), k + 1) |-> IF m = k + 1 THEN w ELSE IF m <= Len(arr) THEN arr[m] ELSE 0]

\* onMouseDown of the resizer of column colIdx (counted from 0) at e.clientX = clientX
handleResizerMouseDown(clientX, colIdx) ==
  /\ data # None
  /\ colIdx \in 0..(Len(data[1].comparisons) - 1)
  /\ LET colWidths == ColWidths(data[1], fontSizes, colWidthsState)
     IN /\ colIdx < Len(colWidths)
        /\ colWidths[colIdx + 1] <= MaxDragWidth
        /\ startWidth' = Some(colWidths[colIdx + 1])
  /\ resizingCol' = Some(colIdx)
  /\ startX' = Some(clientX)
  /\ UNCHANGED <<data, loading, error, file, pending, engine, disk, uploadsLeft,
                 fontSizes, colWidthsState, exported>>
  /\ UNCHANGED viewVars
  /\ UNCHANGED <<selectedCells, exportedSelection>>

\* handleResizerMouseMove that sets the width to startWidth.current + delta as it is
handleResizerMouseMoveUnclamped(clientX) ==
  /\ resizingCol # None
  /\ colWidthsState # None
  /\ LET delta == clientX - startX[1]
     IN colWidthsState' = Some(SetAt(colWidthsState[1], resizingCol[1], startWidth[1] + delta))
  /\ UNCHANGED <<data, loading, error, file, pending, engine, disk, uploadsLeft,
                 fontSizes, exported>>
  /\ UNCHANGED viewVars
  /\ UNCHANGED <<selectedCells, exportedSelection, resizingCol, startX, startWidth>>

\* the mousemove listener at e.clientX = clientX: if (resizingCol.current === null) return
handleResizerMouseMove(clientX) ==
  /\ resizingCol # None
  /\ colWidthsState # None
  /\ LET delta == clientX - startX[1]
     IN colWidthsState' =
          Some(SetAt(colWidthsState[1], resizingCol[1], Max(MinColWidth, startWidth[1] + delta)))
  /\ UNCHANGED <<data, loading, error, file, pending, engine, disk, uploadsLeft,
                 fontSizes, exported>>
  /\ UNCHANGED viewVars
  /\ UNCHANGED <<selectedCells, exportedSelection, resizingCol, startX, startWidth>>

\* the mouseup listener
handleResizerMouseUp ==
  /\ resizingCol # None
  /\ resizingCol' = None
  /\ UNCHANGED <<data, loading, error, file, pending, engine, disk, uploadsLeft,
                 fontSizes, colWidthsState, exported>>
  /\ UNCHANGED viewVars
  /\ UNCHANGED <<selectedCells, exportedSelection, startX, startWidth>>

Next ==
  \/ handleFileUpload
  \/ \E i \in 1..Len(pending) : processExcelFile(i)

NextColor ==
  \/ handleFileUpload
  \/ \E i \in 1..Len(pending) : processExcelFile(i)
  \/ \E type \in ColorScaleTypes : setColorScaleType(type)
  \/ \E value \in ColorArgs : callColorScale(value)

NextMarker ==
  \/ handleFileUpload
  \/ \E i \in 1..Len(pending) : processExcelFile(i)
  \/ \E type \in ColorScaleTypes : setColorScaleType(type)
  \/ \E i \in 1..2, j \in 1..2 : renderCell(i, j)

NextExport ==
  \/ handleFileUpload
  \/ \E i \in 1..Len(pending) : processExcelFile(i)
  \/ downloadProcessedData

NextLayout ==
  \/ handleFileUpload
  \/ \E i \in 1..Len(pending) : processExcelFile(i)
  \/ \E field \in FontFields, value \in FontSliderValues : setFontSizes(field, value)

Spec == Init /\ [][Next]_vars
SpecPipe == InitPipe /\ [][Next]_vars

\* the read of a selected file ends: the promise of selectedFile.arrayBuffer() is settled
\* and a suspended call leaves pending (the steps of processExcelFile are the only ones
\* that do so)
Settle == \E i \in 1..Len(pending) : pending' = RemoveAt(pending, i)
SpecLive == Init /\ [][Next]_vars /\ WF_pending(Settle)
SpecColor == InitColor /\ [][NextColor]_vars
SpecMarker == InitMarker /\ [][NextMarker]_vars
SpecExport == InitExport /\ [][NextExport]_vars
SpecLayout == InitLayout /\ [][NextLayout]_vars

NextSelect ==
  \/ handleFileUpload
  \/ \E i \in 1..Len(pending) : processExcelFile(i)
  \/ \E i \in 0..1, j \in 0..1 : handleCellClick(i, j)
  \/ exportSelection

NextResize ==
  \/ handleFileUpload
  \/ \E i \in 1..Len(pending) : processExcelFile(i)
  \/ \E value \in FontSliderValues : setFontSizes("header", value)
  \/ \E clientX \in MouseXs, colIdx \in 0..1 : handleResizerMouseDown(clientX, colIdx)
  \/ \E clientX \in MouseXs : handleResizerMouseMove(clientX)
  \/ handleResizerMouseUp

SpecSelect == InitSelect /\ [][NextSelect]_vars
SpecResize == InitResize /\ [][NextResize]_vars


(***************************************************************************)
(* Properties.                                                             *)
(***************************************************************************)
\* the upload of the pipeline specification has been processed to its end
Finished == file # None /\ pending = <<>> /\ ValidFileName(file[1].name) /\ file[1].size <= MaxFileSize

\* the sheet of the selected file
Sheet == file[1].table

RECURSIVE SumCounts(_)
SumCounts(groups) ==
  IF Len(groups) = 0 THEN 0 ELSE Head(groups).count + SumCounts(Tail(groups))

PartitionsGenes(dataset) ==
  LET g == dataset.categoryGroups
      genes == dataset.genes
      n == Len(genes)
  IN /\ Len(g) >= 1
     /\ g[1].startIndex = 0
     /\ \A k \in 2..Len(g) : g[k].startIndex = g[k - 1].endIndex + 1
     /\ g[Len(g)].endIndex = n - 1
     /\ \A k \in 1..Len(g) : g[k].count = g[k].endIndex - g[k].startIndex + 1
     /\ SumCounts(g) = n
     /\ \A k \in 1..Len(g) : \A i \in g[k].startIndex..g[k].endIndex :
          genes[i + 1].category = g[k].category
     /\ \A k \in 2..Len(g) : g[k].category # g[k - 1].category

\* C1: after a successful run of processExcelFile the category segments partition the
\* index range [0, n) of the gene sequence: first start 0, each next start = previous
\* end + 1, last end n - 1, count = end - start + 1, counts sum to n, every gene of a
\* segment has the segment's category, adjacent segments differ in category.
C1_SegmentsPartition == data # None => PartitionsGenes(data[1])

\* a Dataset with two segments, one of them of more than one gene
C1_Witness ==
  /\ data # None
  /\ Len(data[1].categoryGroups) = 2
  /\ data[1].categoryGroups[1].count >= 2
  /\ disk = "wide"


\* the categories of the rows of the sheet that pass validation, in row order
ValidatedCategories ==
  LET headers == Headers(Sheet)
      geneData == GeneData(Sheet.cols, Sheet.rows, FilterComparisons(headers),
                           FilterPValues(headers), CategoryCol(headers))
  IN [i \in 1..Len(geneData) |-> geneData[i].category]

\* index of the first element of q equal to c
FirstIndex(q, c) == CHOOSE i \in 1..Len(q) : q[i] = c /\ \A j \in 1..(i - 1) : q[j] # c

\* C2: in the final gene sequence the categories appear in the order in which they are
\* first met in the validated input rows: a gene of the category met earlier precedes every
\* gene of a category met later, each category is one contiguous run, and there are as many
\* segments as distinct categories.
C2_FirstEncounterOrder ==
  (Finished /\ data # None) =>
    LET genes == data[1].genes
        cats == ValidatedCategories
    IN /\ \A p, q \in 1..Len(genes) :
            (genes[p].category # genes[q].category
             /\ FirstIndex(cats, genes[p].category) < FirstIndex(cats, genes[q].category))
              => p < q
       /\ Len(data[1].categoryGroups) = Cardinality({cats[i] : i \in 1..Len(cats)})

\* the input interleaves two categories and the later-met one sorts first alphabetically
C2_Witness ==
  /\ Finished /\ data # None
  /\ Len(ValidatedCategories) = 3
  /\ ValidatedCategories[1] = CatL
  /\ ValidatedCategories[2] = CatI
  /\ ValidatedCategories[3] = CatL

\* C3: within each category group the genes are ascending by values[0]: of two genes of
\* the same category with numeric values[0] the one with the smaller value comes first.
C3_AscendingInGroup ==
  data # None =>
    \A p, q \in 1..Len(data[1].genes) :
      LET a == data[1].genes[p]
          b == data[1].genes[q]
      IN (a.category = b.category /\ a.values[1].t = "num" /\ b.values[1].t = "num"
          /\ a.values[1].n < b.values[1].n) => p < q

\* the same, for groups in which no first value is NaN
C3_AscendingWithoutNaN ==
  (data # None /\ \A p \in 1..Len(data[1].genes) : data[1].genes[p].values[1].t # "nan")
    => C3_AscendingInGroup

\* C9: after validation every entry of values and pValues of every gene is a number or
\* null (never NaN, undefined or a string).
C9_NumberOrNull ==
  data # None =>
    \A p \in 1..Len(data[1].genes) :
      LET g == data[1].genes[p]
      IN /\ \A j \in 1..Len(g.values) : g.values[j].t \in {"num", "null"}
         /\ \A j \in 1..Len(g.pValues) : g.pValues[j].t \in {"num", "null"}

\* C4: grouping and sorting applied to its own output gives the same gene sequence and
\* the same category segments.
C4_Idempotent ==
  data # None =>
    /\ SortedGeneData(data[1].genes, engine) = data[1].genes
    /\ CategoryGroups(SortedGeneData(data[1].genes, engine)) = data[1].categoryGroups


\* the sort moved the third input row to the front of a Dataset of two segments
C4_Witness ==
  /\ Finished /\ data # None
  /\ Len(data[1].genes) = 3
  /\ data[1].genes[1].id = IdOfRow(3)
  /\ Len(data[1].categoryGroups) = 2

(***************************************************************************)
(* The header shape "Log2FC (X)", stated without the matcher of the model: *)
(* the marker in any capitalisation, white space, "(", a non-empty X, ")". *)
(***************************************************************************)
MarkerLetters == <<{"l", "L"}, {"o", "O"}, {"g", "G"}, {"2"}, {"f", "F"}, {"c", "C"}>>

\* h is marker, white space, "(" at position i, X, ")"
ShapedAt(h, i) ==
  /\ i > Len(MarkerLetters)
  /\ i + 1 < Len(h)
  /\ \A j \in 1..Len(MarkerLetters) : h[j] \in MarkerLetters[j]
  /\ \A j \in (Len(MarkerLetters) + 1)..(i - 1) : h[j] \in {" ", "\t"}
  /\ h[i] = "("
  /\ h[Len(h)] = ")"

FoldChangeShaped(h) == \E i \in 1..Len(h) : ShapedAt(h, i)

\* the X of a shaped header
NameIn(h) == LET i == CHOOSE k \in 1..Len(h) : ShapedAt(h, k) IN SubSeq(h, i + 1, Len(h) - 1)

\* y is x without its leading and trailing white space
IsTrimOf(y, x) ==
  /\ \E a, b \in 0..Len(x) :
       /\ a + Len(y) + b = Len(x)
       /\ \A j \in 1..a : x[j] \in {" ", "\t"}
       /\ \A j \in 1..Len(y) : y[j] = x[a + j]
       /\ \A j \in 1..b : x[a + Len(y) + j] \in {" ", "\t"}
  /\ Len(y) > 0 => (y[1] \notin {" ", "\t"} /\ y[Len(y)] \notin {" ", "\t"})

\* positions of the shaped headers among the headers hs
ShapedPositions(hs) == {i \in 1..Len(hs) : FoldChangeShaped(hs[i])}

\* the k-th smallest element of a set of numbers
KthOf(set, k) == CHOOSE i \in set : Cardinality({j \in set : j <= i}) = k

\* C5: when no header has the fold-change shape, processExcelFile ends in the error state
\* (with the schema message whenever the sheet has rows) and never calls setData; no
\* Dataset with zero comparison columns is produced.
C5_NoComparisonFails ==
  /\ (Finished /\ file[1].content = "sheet" /\ ShapedPositions(Headers(Sheet)) = {})
       => /\ data = None
          /\ error # None
          /\ Len(Sheet.rows) > 0 => error = Some(MsgNoComparisons)
  /\ data # None => (Len(data[1].comparisonColumns) >= 1 /\ Len(data[1].comparisons) >= 1)

\* a processed sheet that has a header with the marker but not the shape
C5_Witness ==
  /\ Finished
  /\ error = Some(MsgNoComparisons)
  /\ \E i \in 1..Len(Headers(Sheet)) : Headers(Sheet)[i] = HFcNoParen

(***************************************************************************)
(* The identifier of a row: the cell under the identifier column of the    *)
(* sheet (header Gene ID, GeneID or gene_id); it is blank when it is       *)
(* missing, empty or white space only.                                     *)
(***************************************************************************)
AcceptedIdHeaders ==
  {<<"G","e","n","e"," ","I","D">>, <<"G","e","n","e","I","D">>, <<"g","e","n","e","_","i","d">>}

IdentifierOf(sheet, r) ==
  LET at == {i \in 1..Len(sheet.cols) : sheet.cols[i] \in AcceptedIdHeaders}
  IN IF at = {} THEN Undef ELSE sheet.rows[r][CHOOSE i \in at : TRUE]

BlankText(chars) == \A j \in 1..Len(chars) : chars[j] \in {" ", "\t"}

BlankIdentifier(cell) == cell.t = "undef" \/ (cell.t = "str" /\ BlankText(cell.s))

BlankRows(sheet) == {r \in 1..Len(sheet.rows) : BlankIdentifier(IdentifierOf(sheet, r))}

C10_ComparisonColumns ==
  (Finished /\ data # None) =>
    LET hs == Headers(Sheet)
        at == ShapedPositions(hs)
        cc == data[1].comparisonColumns
        names == data[1].comparisons
    IN /\ Len(cc) = Cardinality(at)
       /\ Len(names) = Cardinality(at)
       /\ \A k \in 1..Len(cc) :
            /\ cc[k] = hs[KthOf(at, k)]
            /\ IsTrimOf(names[k], NameIn(hs[KthOf(at, k)]))

\* two shaped headers (one lower-case with a padded name) around one that is not shaped
C10_Witness ==
  /\ Finished /\ data # None
  /\ Headers(Sheet) = <<GeneIdKey, HFcB, HFcNoParen, HFcC>>
  /\ data[1].comparisons = << <<"B">>, <<"C", " ", "(", "x", ")">> >>


\* the messages of the schema error and of the data errors
SchemaOrDataErrors == {Some(MsgNoComparisons), Some(MsgNoData), Some(MsgNoGenes)}

\* C8: a step that sets a schema or data error leaves data untouched, and data changes only
\* in a step in which a suspended processExcelFile call completes successfully, to the
\* complete Dataset of that call's file.
C8_FailureKeepsData ==
  [][/\ (error' # error /\ error' \in SchemaOrDataErrors) => data' = data
     /\ data' # data =>
          \E i \in 1..Len(pending) :
            /\ ProcessOutcome(pending[i], engine).err = None
            /\ data' = ProcessOutcome(pending[i], engine).data
            /\ pending' = RemoveAt(pending, i)]_vars

\* the Dataset of an earlier upload is displayed next to the schema error of the last one
C8_Witness ==
  /\ data # None
  /\ pending = <<>>
  /\ file # None
  /\ file[1].table = TableNoComparison
  /\ error = Some(MsgNoComparisons)



(***************************************************************************)
(* Color Mapper.                                                           *)
(***************************************************************************)
\* C11: a call of colorScale returns the neutral color #f9f9f9 when its value is null or
\* undefined, whatever the mode and whether or not a Dataset is loaded, and returns
\* another color (or undefined) for every other value.
C11_NeutralForNull ==
  colorCall # None =>
    (colorCall[1].color = NeutralColor <=> colorCall[1].value.t \in {"undef", "null"})

\* colorScale(null) was called in quantile mode with a Dataset loaded
C11_Witness ==
  /\ colorCall # None
  /\ colorCall[1].value = JsNull
  /\ colorCall[1].type = "quantile"
  /\ colorCall[1].color = NeutralColor
  /\ data # None

\* the colors colorScale can return for every value of ColorArgs, in the present state
ColorsNow == [v \in ColorArgs |-> colorScale(v, colorScaleType, data, schemeRdBu7)]

\* C12: a step that leaves the Dataset and the mode as they are leaves the color of every
\* value as it is: a call of colorScale changes no state another call depends on.
C12_ColorDeterministic ==
  [][(data' = data /\ colorScaleType' = colorScaleType) => ColorsNow' = ColorsNow]_vars

\* C13: in linear mode a number v > 0 is on the red ramp and v < 0 on the blue ramp, the
\* intensity is min(|v| / 3, 1) (in units of 1 / 3000: min(|v|, 3000)), so |v| >= 3 has
\* intensity 1 and v = 0 has intensity 0.
C13_LinearIntensity ==
  (colorCall # None /\ colorCall[1].type = "linear" /\ colorCall[1].value.t = "num") =>
    LET v == colorCall[1].value.n
        color == colorCall[1].color
    IN /\ color.scheme \in {"Reds", "Blues"}
       /\ v > 0 => color.scheme = "Reds"
       /\ v < 0 => color.scheme = "Blues"
       /\ color.kind = "lin"
       /\ 3000 * color.n = IF Abs(v) <= 3000 THEN 3000 * Abs(v) ELSE 3000 * 3000
       /\ Abs(v) >= 3000 => color.n = 3000
       /\ v = 0 => color.n = 0

\* a linear call with a value beyond 3 in magnitude
C13_Witness ==
  /\ colorCall # None
  /\ colorCall[1].type = "linear"
  /\ colorCall[1].value = Num(0 - 4500)
  /\ colorCall[1].color = Interpolate("Blues", [kind |-> "lin", n |-> 3000])

(***************************************************************************)
(* Significance Mapper.                                                    *)
(***************************************************************************)
\* C14: a cell with a numeric p-value p shows a circle of radius 5 for p < 0.01, of
\* radius 3 for 0.01 <= p < 0.05, a grey circle of radius 2 for 0.05 <= p < 0.1, and
\* no circle for p >= 0.1.
C14_MarkerTiers ==
  (renderedCell # None /\ renderedCell[1].pValue.t = "num") =>
    LET p == renderedCell[1].pValue.n
        c == renderedCell[1]
    IN /\ p < 10 => (c.circle /\ c.r = 5 /\ c.circleFill = "black")
       /\ (10 <= p /\ p < 50) => (c.circle /\ c.r = 3 /\ c.circleFill = "black")
       /\ (50 <= p /\ p < 100) => (c.circle /\ c.r = 2 /\ c.circleFill = "#888")
       /\ p >= 100 => (~c.circle /\ c.r = 0)

\* a rendered cell whose p-value is 0.01
C14_Witness ==
  /\ renderedCell # None
  /\ renderedCell[1].pValue = Num(10)
  /\ renderedCell[1].r = 3

\* C15 as stated: p = 0.05 shows no circle, p = 0.049 shows the circle of radius 3 and
\* p = 0.009 the circle of radius 5.
C15_NoMarkerAtBoundary ==
  renderedCell # None =>
    LET c == renderedCell[1]
    IN /\ c.pValue = Num(50) => ~c.circle
       /\ c.pValue = Num(49) => (c.circle /\ c.r = 3)
       /\ c.pValue = Num(9) => (c.circle /\ c.r = 5)

\* C15 amended: p = 0.05 shows the grey circle of radius 2 and is not emphasised (the
\* boundary 0.05 ends the significant range and begins the marginal one), p = 0.049
\* shows the black circle of radius 3 and p = 0.009 the black circle of radius 5.
C15_MarginalAtBoundary ==
  renderedCell # None =>
    LET c == renderedCell[1]
    IN /\ c.pValue = Num(50) =>
            (c.circle /\ c.r = 2 /\ c.circleFill = "#888" /\ c.fontWeight = "normal")
       /\ c.pValue = Num(49) =>
            (c.circle /\ c.r = 3 /\ c.circleFill = "black" /\ c.fontWeight = "bold")
       /\ c.pValue = Num(9) =>
            (c.circle /\ c.r = 5 /\ c.circleFill = "black" /\ c.fontWeight = "bold")

\* a rendered cell whose p-value is 0.05
C15_Witness ==
  /\ renderedCell # None
  /\ renderedCell[1].pValue = Num(50)
  /\ renderedCell[1].circle

\* C16: a cell whose p-value is null shows no circle, has radius 0 and its text is not
\* bold.
C16_NullHasNoMarker ==
  (renderedCell # None /\ renderedCell[1].pValue.t = "null") =>
    /\ ~renderedCell[1].circle
    /\ renderedCell[1].r = 0
    /\ renderedCell[1].fontWeight = "normal"

\* a cell without a p-value (fewer p-value columns than comparisons) shows no marker
C16_UndefinedHasNoMarker ==
  (renderedCell # None /\ renderedCell[1].pValue.t = "undef") =>
    /\ ~renderedCell[1].circle
    /\ renderedCell[1].r = 0
    /\ renderedCell[1].fontWeight = "normal"


(***************************************************************************)
(* Export and re-import.                                                   *)
(***************************************************************************)
\* the step resumes the processing of the file exported from the Dataset on display
Reimport(i) ==
  /\ data # None
  /\ i \in 1..Len(pending)
  /\ pending[i] = ExportFile(data[1])
  /\ processExcelFile(i)

\* the same genes in the same order, each with the same category and the same values
SameGenes(before, after) ==
  /\ Len(after.genes) = Len(before.genes)
  /\ \A g \in 1..Len(before.genes) :
       /\ after.genes[g].id = before.genes[g].id
       /\ after.genes[g].category = before.genes[g].category
       /\ after.genes[g].values = before.genes[g].values

\* C17: the re-import of the file exported from a Dataset succeeds and sets a Dataset with
\* the same genes in the same order, each with the same category and the same values
\* (a null value read back as null).
C17_RoundTrip ==
  [][\A i \in 1..Len(pending) :
       Reimport(i) =>
         /\ ProcessOutcome(pending[i], engine).err = None
         /\ data' # None
         /\ SameGenes(data[1], data'[1])]_vars

\* no value of the Dataset is null
NoNullValue(dataset) ==
  \A g \in 1..Len(dataset.genes) : \A j \in 1..Len(dataset.genes[g].values) :
    dataset.genes[g].values[j].t = "num"

\* the round trip of a Dataset with a named comparison and without a null value
C17_RoundTripWithoutNull ==
  [][\A i \in 1..Len(pending) :
       (Reimport(i) /\ NoNullValue(data[1]) /\ \A j \in 1..Len(data[1].comparisons) :
                                                  Len(data[1].comparisons[j]) > 0) =>
         /\ ProcessOutcome(pending[i], engine).err = None
         /\ data' # None
         /\ SameGenes(data[1], data'[1])]_vars

\* C18: the re-import of the file exported from a Dataset detects as many comparison
\* columns and as many p-value columns as the Dataset has, and every gene has values and
\* pValues of the lengths it had.
C18_SchemaRecognised ==
  [][\A i \in 1..Len(pending) :
       Reimport(i) =>
         /\ ProcessOutcome(pending[i], engine).err = None
         /\ data' # None
         /\ Len(data'[1].comparisonColumns) = Len(data[1].comparisonColumns)
         /\ Len(data'[1].pValueColumns) = Len(data[1].pValueColumns)
         /\ Len(data'[1].genes) = Len(data[1].genes)
         /\ \A g \in 1..Len(data[1].genes) :
              /\ Len(data'[1].genes[g].values) = Len(data[1].genes[g].values)
              /\ Len(data'[1].genes[g].pValues) = Len(data[1].genes[g].pValues)]_vars

\* C19: the file exported from the Dataset on display has one row per gene with the
\* identifier, the category and, for every comparison, a fold-change cell and a p-value
\* cell, each of them a number or the text "N/A" and none of them blank.
C19_NoBlankCell ==
  (data # None /\ exported = Some(ExportFile(data[1]))) =>
    LET sheet == exported[1].table
        m == Len(data[1].comparisons)
    IN /\ Len(sheet.rows) = Len(data[1].genes)
       /\ Len(sheet.cols) = 2 + 2 * m
       /\ \A r \in 1..Len(sheet.rows) :
            /\ sheet.rows[r][1] = data[1].genes[r].id
            /\ sheet.rows[r][2] = data[1].genes[r].category
            /\ \A c \in 3..(2 + 2 * m) :
                 sheet.rows[r][c].t = "num" \/ sheet.rows[r][c] = Str(TextNotAvailable)

(***************************************************************************)
(* Layout Metric Calculator.                                               *)
(***************************************************************************)
\* C20: whenever a Dataset is on display the width in use for every column is the width
\* computed from this Dataset and the present font sizes (no column is resized in the
\* behaviours of the layout specification).
C20_WidthsRecomputed ==
  data # None => ColWidths(data[1], fontSizes, colWidthsState) = ColWidthsRaw(data[1], fontSizes)

(***************************************************************************)
(* Order of the genes without a numeric first value.                       *)
(***************************************************************************)
\* C21: the sort in each category is by a consistent comparator, also for first values
\* that are null or NaN: over the genes of a category it is antisymmetric and transitive,
\* and the gene sequence of the displayed Dataset is the same under every sort
\* implementation.
C21_ConsistentOrder ==
  (data # None /\ file # None) =>
    LET genes == data[1].genes
        sameCategory(a, b) == a.category = b.category
    IN /\ \A p, q \in 1..Len(genes) :
            sameCategory(genes[p], genes[q])
              => Sign(Compare(genes[p], genes[q])) = 0 - Sign(Compare(genes[q], genes[p]))
       /\ \A p, q, r \in 1..Len(genes) :
            (/\ sameCategory(genes[p], genes[q]) /\ sameCategory(genes[q], genes[r])
             /\ Compare(genes[p], genes[q]) <= 0
             /\ Compare(genes[q], genes[r]) <= 0)
              => Compare(genes[p], genes[r]) <= 0
       /\ \A eng \in Engines :
            ProcessOutcome(file[1], eng).err = None
              => ProcessOutcome(file[1], eng).data[1].genes = genes

(***************************************************************************)
(* Overlapping uploads.                                                    *)
(***************************************************************************)
\* the file is one handleFileUpload hands to processExcelFile
Accepted(f) == ValidFileName(f.name) /\ f.size <= MaxFileSize

\* C22: once no upload is in flight, and the file named as 'Using file' was processed
\* successfully, the displayed Dataset is the Dataset of that file, in whatever order the
\* uploads completed.
C22_LastSelectedWins ==
  (/\ pending = <<>>
   /\ file # None
   /\ Accepted(file[1])
   /\ ProcessOutcome(file[1], engine).err = None)
    => data = ProcessOutcome(file[1], engine).data

\* C24: a step in which an upload completes successfully and its Dataset is displayed
\* ends with error null.
C24_NoErrorAfterSuccess ==
  [][\A i \in 1..Len(pending) :
       (processExcelFile(i) /\ ProcessOutcome(pending[i], engine).err = None)
         => error' = None]_vars

\* C25: loading is true whenever at least one upload is still being processed.
C25_LoadingWhileInFlight == pending # <<>> => loading = TRUE

\* C26: an upload that set loading to true sets it back to false: while nothing is in
\* flight loading is false, loading that is true becomes false, and the step that ends an
\* upload sets loading false and either replaces data with the Dataset of the file or sets
\* the error of the failure.
C26_LoadingEnds ==
  /\ [](pending = <<>> => loading = FALSE)
  /\ (loading = TRUE) ~> (loading = FALSE)
  /\ [][\A i \in 1..Len(pending) :
          processExcelFile(i) =>
            /\ loading' = FALSE
            /\ \/ data' # None /\ data' = ProcessOutcome(pending[i], engine).data
               \/ error' # None /\ error' = ProcessOutcome(pending[i], engine).err]_vars

\* an upload of a file that cannot be read has ended
C26_Witness ==
  /\ pending = <<>>
  /\ loading = FALSE
  /\ file # None
  /\ file[1].content = "unreadable"
  /\ error = Some(MsgUnreadable)

(***************************************************************************)
(* Rejected files.                                                         *)
(***************************************************************************)
\* C27: a step of handleFileUpload for a selected file whose name does not end in .xlsx
\* or .xls, whatever the case of its letters, or whose size is above 10 MB, sets the error
\* of the rejection and loading false, suspends no processExcelFile call and leaves data
\* as it is.
C27_Rejects ==
  [][(/\ uploadsLeft' < uploadsLeft
      /\ file' # None
      /\ error' # Some(MsgNoFile)
      /\ \/ ~EndsWith(ToLowerCase(file'[1].name), <<".","x","l","s","x">>)
            /\ ~EndsWith(ToLowerCase(file'[1].name), <<".","x","l","s">>)
         \/ file'[1].size > 10 * 1024 * 1024)
       => /\ error' \in {Some(MsgFileType), Some(MsgFileSize)}
          /\ loading' = FALSE
          /\ pending' = pending
          /\ data' = data]_vars

\* a file of more than 10 MB was rejected while the Dataset of an earlier upload is displayed
C27_Witness ==
  /\ data # None
  /\ file # None
  /\ file[1].size > MaxFileSize
  /\ error = Some(MsgFileSize)
  /\ loading = FALSE

(***************************************************************************)
(* Selection of cells.                                                     *)
(***************************************************************************)
\* C23: every entry of selectedCells is a cell of the displayed Dataset: its row is below
\* data.genes.length and its col below data.comparisons.length.
C23_SelectionInDataset ==
  \A k \in 1..Len(selectedCells) :
    /\ data # None
    /\ selectedCells[k].row < Len(data[1].genes)
    /\ selectedCells[k].col < Len(data[1].comparisons)

\* the rows (counted from 0) of the displayed Dataset with a selected cell
RowsWithSelectedCell == {selectedCells[k].row : k \in 1..Len(selectedCells)}

\* C28: a step of exportSelection with an empty selection writes nothing, and with a
\* selection it writes the sheet whose rows are the rows of the displayed Dataset with at
\* least one selected cell, in display order, and no other row.
C28_ExportsSelectedRows ==
  [][exportSelection =>
       IF selectedCells = <<>> THEN exportedSelection' = exportedSelection
       ELSE /\ exportedSelection' # None
            /\ LET inRow(r) == (r - 1) \in RowsWithSelectedCell
                   nums == 1..Len(data[1].genes)
                   picked == SelectSeq([r \in nums |-> r], inRow)
               IN exportedSelection'[1].table.rows =
                    [n \in 1..Len(picked) |->
                       ExportRow(data[1].genes[picked[n]], data[1].comparisons)]]_vars

\* the cells of the displayed Dataset that are in selectedCells
SelectedSet(cells) == {<<cells[k].row, cells[k].col>> : k \in 1..Len(cells)}

\* C29: a step handleCellClick(i, j) toggles the membership of cell (i, j) and of no other
\* cell, and selectedCells never holds the same cell twice.
C29_ClickToggles ==
  [][\A i \in 0..1, j \in 0..1 :
       handleCellClick(i, j) =>
         /\ (<<i, j>> \in SelectedSet(selectedCells')) # (<<i, j>> \in SelectedSet(selectedCells))
         /\ SelectedSet(selectedCells') \ {<<i, j>>} = SelectedSet(selectedCells) \ {<<i, j>>}
         /\ Cardinality(SelectedSet(selectedCells')) = Len(selectedCells')]_vars

\* clicks have selected the cell of the second gene and then the cell of the first, of a
\* Dataset of two genes
C29_Witness ==
  /\ data # None
  /\ Len(data[1].genes) = 2
  /\ Len(selectedCells) = 2
  /\ selectedCells[1] = [row |-> 1, col |-> 0]
  /\ selectedCells[2] = [row |-> 0, col |-> 0]

=========================================================================
